---- MODULE Spec2Model ----
(***************************************************************************)
(* Model of the relay server of recall-meeting-bot (src/server/index.js):  *)
(* POST /api/create-bot, the two polling endpoints GET /api/bot/:botId and *)
(* GET /api/bot/:botId/recordings, their recursive retry closures          *)
(* getBotStatus / getRecordings, and the error mapping handleApiError.     *)
(*                                                                         *)
(* One step of the model is one run of JavaScript between two awaits: the  *)
(* arrival of a request up to the first provider call, the settling of a   *)
(* provider call up to the next await (or the response), and the end of a  *)
(* delay up to the next provider call.                                     *)
(*                                                                         *)
(* The second half models the browser client, the React component App in   *)
(* its versions src/src/App.tsx, src/unnamed/part_002, part_003 and        *)
(* part_004: createBot, startPolling with its interval callback,           *)
(* getRecordings, and the effect that clears the stored interval handle.   *)
(* A callback keeps the values of the render it was created in.  A last    *)
(* part joins client, relay and provider for one bot.                      *)
(***************************************************************************)
EXTENDS Integers, Sequences, FiniteSets, TLC

\* Largest value of MAX_RETRIES explored (the environment sets it).
MaxRetriesBound == 2
\* Number of request slots served by the process.
NumReqs == 1

Reqs == 1..NumReqs

\* Number of requests the process serves at the same time, where requests
\* interleave.
NumPair == 2
PairReqs == 1..NumPair
\* Value of MAX_RETRIES where requests interleave.
PairRetries == 1

\* Number of createBot calls explored; each successful one starts a session.
MaxSessions == 2
\* Largest number of status fetches of one session in flight at a time.
MaxInFlight == 2
\* Largest number of recordings fetches explored for one session, when
\* sessions may overlap and when there is a single session.
MaxRecChecks == 1
MaxRecFetches == 7

Sessions == 1..MaxSessions

VARIABLES
  MAX_RETRIES,  \* index.js:15, fixed at start-up from the environment
  pc,           \* per request: "idle", "call" (awaiting RECALL_API.get),
                \*              "delay" (awaiting delay(RETRY_DELAY)), "done"
  endpoint,     \* per request: "create", "status" or "recordings"
  currentTry,   \* per request: the closure's `let currentTry`
  log,          \* per request: classes of the provider outcomes seen so far
  last,         \* per request: the outcome of the latest provider call
  delays,       \* per request: number of delay(RETRY_DELAY) calls started
  raised,       \* per request: the error thrown out of the retry closure
  res           \* per request: the HTTP response sent by the route handler

svars == <<MAX_RETRIES, pc, endpoint, currentTry, log, last, delays, raised, res>>

VARIABLES
  variant,          \* which version of App runs: "App", "p2", "p3" or "p4"
  loading,          \* useState(false)
  botId,            \* useState(''), 0 for ''
  uiStatus,         \* the `status` state, as the kind of message shown
  uiError,          \* the `error` state (part_003, part_004), "null" if unset
  uiRecordings,     \* the `recordings` state
  retryCount,       \* useState(0) (part_004)
  pollingInterval,  \* the stored handle, 0 for null (part_002 to part_004)
  creating,         \* createBot awaits the answer to its POST
  capPoll,          \* pollingInterval as seen by the running createBot
  capRetry,         \* retryCount as seen by the running createBot
  nSessions,        \* sessions started so far; session s polls bot s
  timerOn,          \* per session: its setInterval timer is active
  sessRetry,        \* per session: retryCount as seen by its callbacks
  inflight,         \* per session: status fetches awaiting their answer
  recTimers,        \* per session: pending setTimeout(getRecordings)
  recInflight,      \* per session: recordings fetches awaiting their answer
  recFetches,       \* per session: recordings fetches issued so far
  recScheduled,     \* per session: 10 s recordings checks scheduled
  termStops,        \* per session: clearInterval calls of the ended/left case
  fails,            \* per session: consecutive failed status answers (up to 6)
  last404,          \* per session: its latest status answer was an HTTP 404
  sessPoll          \* per session: pollingInterval as its checkBotStatus sees it

\* The provider's bot as read by the relay: status reads answered so far.
VARIABLE providerReads

cvars == <<variant, loading, botId, uiStatus, uiError, uiRecordings, retryCount,
           pollingInterval, creating, capPoll, capRetry, nSessions, timerOn,
           sessRetry, inflight, recTimers, recInflight, recFetches,
           recScheduled, termStops, fails, last404, sessPoll>>

vars == <<svars, cvars, providerReads>>

-----------------------------------------------------------------------------
(* Provider outcomes: what `await RECALL_API.get('/bot/' + botId)` yields. *)

Statuses == {"joining", "joined", "ended"}

\* response.data of a successful call: the bot resource.
Payloads ==
  {[kind |-> "ok", status |-> s, hasRecordings |-> TRUE, recordings |-> l] :
      s \in Statuses, l \in {<<>>, <<"r1">>}}
  \cup
  {[kind |-> "ok", status |-> s, hasRecordings |-> FALSE, recordings |-> <<>>] :
      s \in Statuses}

\* Rejections of the call.  code = 0 stands for an error without a response
\* (timeout, network error); hasData = FALSE for an empty response body.
NotFoundErr ==
  [kind |-> "err", code |-> 404, hasData |-> TRUE, detail |-> "Not found.",
   message |-> "", text |-> "Request failed with status code 404"]
NotFoundBare ==
  [kind |-> "err", code |-> 404, hasData |-> FALSE, detail |-> "",
   message |-> "", text |-> "Request failed with status code 404"]
UnavailableErr ==
  [kind |-> "err", code |-> 503, hasData |-> TRUE, detail |-> "",
   message |-> "Service unavailable", text |-> "Request failed with status code 503"]
TimeoutErr ==
  [kind |-> "err", code |-> 0, hasData |-> FALSE, detail |-> "",
   message |-> "", text |-> "timeout of 60000ms exceeded"]

ProviderErrors == {NotFoundErr, NotFoundBare, UnavailableErr, TimeoutErr}

Outcomes == Payloads \cup ProviderErrors

None == [kind |-> "none"]

\* error.response?.status === 404
IsNotFound(error) == error.kind = "err" /\ error.code = 404

\* The class of an outcome as the endpoint's loop sees it.
Class(ep, o) ==
  IF o.kind = "err"
    THEN IF IsNotFound(o) THEN "notfound" ELSE "transient"
    ELSE IF ep = "create"
           THEN "ready"
           ELSE IF ep = "status"
                  THEN IF o.status = "joining" THEN "notready" ELSE "ready"
                  ELSE IF o.recordings = <<>> THEN "notready" ELSE "ready"

-----------------------------------------------------------------------------
(* handleApiError, index.js:112-123 *)

handleApiError(error) ==
  IF error.code # 0 /\ error.hasData
    THEN [kind |-> "error",
          status |-> error.code,
          error |-> IF error.detail # "" THEN error.detail
                    ELSE IF error.message # "" THEN error.message
                    ELSE "API Error"]
    ELSE [kind |-> "error",
          status |-> 500,
          error |-> IF error.text # "" THEN error.text
                    ELSE "Unknown error occurred"]

-----------------------------------------------------------------------------
(* The retry closures.  Each operator is the continuation that runs when   *)
(* the awaited provider call settles with outcome o while the closure's    *)
(* counter is cur; it yields what the closure does next.                   *)

\* Variants of getBotStatus with one plausible slip each.
\* The failure branch tests the counter with <= instead of <.
getBotStatus_RetryOffByOne(o, cur) ==
  IF o.kind = "ok"
    THEN IF o.status = "joining" /\ cur < MAX_RETRIES
           THEN [next |-> "delay", currentTry |-> cur + 1]
           ELSE [next |-> "return", currentTry |-> cur]
    ELSE IF IsNotFound(o)
           THEN [next |-> "throw", currentTry |-> cur]
           ELSE IF cur + 1 <= MAX_RETRIES
                  THEN [next |-> "delay", currentTry |-> cur + 1]
                  ELSE [next |-> "throw", currentTry |-> cur + 1]

\* The catch block lacks the 404 test.
getBotStatus_No404Check(o, cur) ==
  IF o.kind = "ok"
    THEN IF o.status = "joining" /\ cur < MAX_RETRIES
           THEN [next |-> "delay", currentTry |-> cur + 1]
           ELSE [next |-> "return", currentTry |-> cur]
    ELSE IF cur + 1 < MAX_RETRIES
           THEN [next |-> "delay", currentTry |-> cur + 1]
           ELSE [next |-> "throw", currentTry |-> cur + 1]

\* The "joining" branch increments before it tests, as the catch block does.
getBotStatus_JoiningOffByOne(o, cur) ==
  IF o.kind = "ok"
    THEN IF o.status = "joining" /\ cur + 1 < MAX_RETRIES
           THEN [next |-> "delay", currentTry |-> cur + 1]
           ELSE [next |-> "return", currentTry |-> cur]
    ELSE IF IsNotFound(o)
           THEN [next |-> "throw", currentTry |-> cur]
           ELSE IF cur + 1 < MAX_RETRIES
                  THEN [next |-> "delay", currentTry |-> cur + 1]
                  ELSE [next |-> "throw", currentTry |-> cur + 1]

\* The "joining" branch does not test the counter.
getBotStatus_JoiningUnbounded(o, cur) ==
  IF o.kind = "ok"
    THEN IF o.status = "joining"
           THEN [next |-> "delay", currentTry |-> cur + 1]
           ELSE [next |-> "return", currentTry |-> cur]
    ELSE IF IsNotFound(o)
           THEN [next |-> "throw", currentTry |-> cur]
           ELSE IF cur + 1 < MAX_RETRIES
                  THEN [next |-> "delay", currentTry |-> cur + 1]
                  ELSE [next |-> "throw", currentTry |-> cur + 1]

\* The "joining" branch re-polls on the first attempt only.
getBotStatus_JoiningOnce(o, cur) ==
  IF o.kind = "ok"
    THEN IF o.status = "joining" /\ cur = 0 /\ cur < MAX_RETRIES
           THEN [next |-> "delay", currentTry |-> cur + 1]
           ELSE [next |-> "return", currentTry |-> cur]
    ELSE IF IsNotFound(o)
           THEN [next |-> "throw", currentTry |-> cur]
           ELSE IF cur + 1 < MAX_RETRIES
                  THEN [next |-> "delay", currentTry |-> cur + 1]
                  ELSE [next |-> "throw", currentTry |-> cur + 1]

\* getBotStatus, index.js:165-206
getBotStatus(o, cur) ==
  IF o.kind = "ok"
    THEN IF o.status = "joining" /\ cur < MAX_RETRIES
           THEN [next |-> "delay", currentTry |-> cur + 1]
           ELSE [next |-> "return", currentTry |-> cur]
    ELSE IF IsNotFound(o)
           THEN [next |-> "throw", currentTry |-> cur]
           ELSE IF cur + 1 < MAX_RETRIES
                  THEN [next |-> "delay", currentTry |-> cur + 1]
                  ELSE [next |-> "throw", currentTry |-> cur + 1]

\* response.data.recordings || []
RecordingsOf(data) == IF data.hasRecordings THEN data.recordings ELSE <<>>

\* Variants of getRecordings with one plausible slip each.
\* Any result is re-polled while the budget lasts, the list is not looked at.
getRecordings_IgnoresLength(o, cur) ==
  IF o.kind = "ok"
    THEN IF cur < MAX_RETRIES
           THEN [next |-> "delay", currentTry |-> cur + 1]
           ELSE [next |-> "return", currentTry |-> cur]
    ELSE IF cur + 1 < MAX_RETRIES
           THEN [next |-> "delay", currentTry |-> cur + 1]
           ELSE [next |-> "throw", currentTry |-> cur + 1]

\* The empty-list branch increments before it tests, as the catch block does.
getRecordings_EmptyOffByOne(o, cur) ==
  IF o.kind = "ok"
    THEN IF Len(RecordingsOf(o)) = 0 /\ cur + 1 < MAX_RETRIES
           THEN [next |-> "delay", currentTry |-> cur + 1]
           ELSE [next |-> "return", currentTry |-> cur]
    ELSE IF cur + 1 < MAX_RETRIES
           THEN [next |-> "delay", currentTry |-> cur + 1]
           ELSE [next |-> "throw", currentTry |-> cur + 1]

\* The empty-list branch does not test the counter.
getRecordings_EmptyUnbounded(o, cur) ==
  IF o.kind = "ok"
    THEN IF Len(RecordingsOf(o)) = 0
           THEN [next |-> "delay", currentTry |-> cur + 1]
           ELSE [next |-> "return", currentTry |-> cur]
    ELSE IF cur + 1 < MAX_RETRIES
           THEN [next |-> "delay", currentTry |-> cur + 1]
           ELSE [next |-> "throw", currentTry |-> cur + 1]

\* A failure is re-polled while currentTry <= MAX_RETRIES, tested before the
\* increment.
getRecordings_FailureBudgetLoose(o, cur) ==
  IF o.kind = "ok"
    THEN IF Len(RecordingsOf(o)) = 0 /\ cur < MAX_RETRIES
           THEN [next |-> "delay", currentTry |-> cur + 1]
           ELSE [next |-> "return", currentTry |-> cur]
    ELSE IF cur < MAX_RETRIES + 1
           THEN [next |-> "delay", currentTry |-> cur + 1]
           ELSE [next |-> "throw", currentTry |-> cur + 1]

\* getRecordings, index.js:228-268
getRecordings(o, cur) ==
  IF o.kind = "ok"
    THEN IF Len(RecordingsOf(o)) = 0 /\ cur < MAX_RETRIES
           THEN [next |-> "delay", currentTry |-> cur + 1]
           ELSE [next |-> "return", currentTry |-> cur]
    ELSE IF cur + 1 < MAX_RETRIES
           THEN [next |-> "delay", currentTry |-> cur + 1]
           ELSE [next |-> "throw", currentTry |-> cur + 1]

\* Variant of createBotRoute with a plausible slip: a failed create is
\* retried like a failed status read.
createBotRoute_RetriesFailure(o, cur) ==
  IF o.kind = "ok"
    THEN [next |-> "return", currentTry |-> cur]
    ELSE IF cur + 1 < MAX_RETRIES
           THEN [next |-> "delay", currentTry |-> cur + 1]
           ELSE [next |-> "throw", currentTry |-> cur + 1]

\* The body of app.post('/api/create-bot') after its only provider call,
\* index.js:137-150: answer with the payload or with the mapped error.
createBotRoute(o, cur) ==
  IF o.kind = "ok"
    THEN [next |-> "return", currentTry |-> cur]
    ELSE [next |-> "throw", currentTry |-> cur]

-----------------------------------------------------------------------------
Variants == {"App", "p2", "p3", "p4"}

\* The component as first rendered: the useState initial values.
ClientInit ==
  /\ variant \in Variants
  /\ loading = FALSE
  /\ botId = 0
  /\ uiStatus = ""
  /\ uiError = "null"
  /\ uiRecordings = <<>>
  /\ retryCount = 0
  /\ pollingInterval = 0
  /\ creating = FALSE
  /\ capPoll = 0
  /\ capRetry = 0
  /\ nSessions = 0
  /\ timerOn = [s \in Sessions |-> FALSE]
  /\ sessRetry = [s \in Sessions |-> 0]
  /\ inflight = [s \in Sessions |-> 0]
  /\ recTimers = [s \in Sessions |-> 0]
  /\ recInflight = [s \in Sessions |-> 0]
  /\ recFetches = [s \in Sessions |-> 0]
  /\ recScheduled = [s \in Sessions |-> 0]
  /\ termStops = [s \in Sessions |-> 0]
  /\ fails = [s \in Sessions |-> 0]
  /\ last404 = [s \in Sessions |-> FALSE]
  /\ sessPoll = [s \in Sessions |-> 0]
  /\ providerReads = 0

\* The server alone: the page is open and nothing has been clicked.
Init ==
  /\ ClientInit
  /\ variant = "App"
  /\ MAX_RETRIES \in 0..MaxRetriesBound
  /\ pc = [r \in Reqs |-> "idle"]
  /\ endpoint = [r \in Reqs |-> "status"]
  /\ currentTry = [r \in Reqs |-> 0]
  /\ log = [r \in Reqs |-> <<>>]
  /\ last = [r \in Reqs |-> None]
  /\ delays = [r \in Reqs |-> 0]
  /\ raised = [r \in Reqs |-> None]
  /\ res = [r \in Reqs |-> None]

\* A request arrives on slot r for endpoint ep: the handler initialises its
\* counter and runs up to the first `await RECALL_API.get`.
Arrive(r, ep) ==
  /\ pc[r] \in {"idle", "done"}
  /\ pc' = [pc EXCEPT ![r] = "call"]
  /\ endpoint' = [endpoint EXCEPT ![r] = ep]
  /\ currentTry' = [currentTry EXCEPT ![r] = 0]
  /\ log' = [log EXCEPT ![r] = <<>>]
  /\ last' = [last EXCEPT ![r] = None]
  /\ delays' = [delays EXCEPT ![r] = 0]
  /\ raised' = [raised EXCEPT ![r] = None]
  /\ res' = [res EXCEPT ![r] = None]
  /\ UNCHANGED MAX_RETRIES

\* app.post('/api/create-bot'), index.js:129-138
CreateRequest(r) == Arrive(r, "create")

\* app.get('/api/bot/:botId'), index.js:154-165
StatusRequest(r) == Arrive(r, "status")

\* app.get('/api/bot/:botId/recordings'), index.js:218-228
RecordingsRequest(r) == Arrive(r, "recordings")

\* Variant of Settle with a plausible slip: the route has no catch block, so
\* an error thrown by the closure leaves the request without a response.
Settle_ThrowEscapes(r, o, d, body) ==
  /\ currentTry' = [currentTry EXCEPT ![r] = d.currentTry]
  /\ log' = [log EXCEPT ![r] = Append(@, Class(endpoint[r], o))]
  /\ last' = [last EXCEPT ![r] = o]
  /\ CASE d.next = "delay" ->
            /\ pc' = [pc EXCEPT ![r] = "delay"]
            /\ delays' = [delays EXCEPT ![r] = @ + 1]
            /\ UNCHANGED <<raised, res>>
       [] d.next = "return" ->
            /\ pc' = [pc EXCEPT ![r] = "done"]
            /\ res' = [res EXCEPT ![r] = [kind |-> "json", status |-> 200, body |-> body]]
            /\ UNCHANGED <<raised, delays>>
       [] d.next = "throw" ->
            /\ pc' = [pc EXCEPT ![r] = "hung"]
            /\ raised' = [raised EXCEPT ![r] = o]
            /\ UNCHANGED <<res, delays>>
  /\ UNCHANGED <<MAX_RETRIES, endpoint>>

\* The provider call of request r settles with outcome o; the closure's
\* continuation d runs, and on return or throw so does the route handler.
\* Variant of Settle with a plausible slip: currentTry is declared once for
\* the module, not inside the route handler, so every request sees one counter.
Settle_SharedCounter(r, o, d, body) ==
  /\ currentTry' = [q \in DOMAIN currentTry |-> d.currentTry]
  /\ log' = [log EXCEPT ![r] = Append(@, Class(endpoint[r], o))]
  /\ last' = [last EXCEPT ![r] = o]
  /\ CASE d.next = "delay" ->
            /\ pc' = [pc EXCEPT ![r] = "delay"]
            /\ delays' = [delays EXCEPT ![r] = @ + 1]
            /\ UNCHANGED <<raised, res>>
       [] d.next = "return" ->
            /\ pc' = [pc EXCEPT ![r] = "done"]
            /\ res' = [res EXCEPT ![r] = [kind |-> "json", status |-> 200, body |-> body]]
            /\ UNCHANGED <<raised, delays>>
       [] d.next = "throw" ->
            /\ pc' = [pc EXCEPT ![r] = "done"]
            /\ raised' = [raised EXCEPT ![r] = o]
            /\ res' = [res EXCEPT ![r] = handleApiError(o)]
            /\ UNCHANGED delays
  /\ UNCHANGED <<MAX_RETRIES, endpoint>>

Settle(r, o, d, body) ==
  /\ currentTry' = [currentTry EXCEPT ![r] = d.currentTry]
  /\ log' = [log EXCEPT ![r] = Append(@, Class(endpoint[r], o))]
  /\ last' = [last EXCEPT ![r] = o]
  /\ CASE d.next = "delay" ->
            /\ pc' = [pc EXCEPT ![r] = "delay"]
            /\ delays' = [delays EXCEPT ![r] = @ + 1]
            /\ UNCHANGED <<raised, res>>
       [] d.next = "return" ->
            /\ pc' = [pc EXCEPT ![r] = "done"]
            /\ res' = [res EXCEPT ![r] = [kind |-> "json", status |-> 200, body |-> body]]
            /\ UNCHANGED <<raised, delays>>
       [] d.next = "throw" ->
            /\ pc' = [pc EXCEPT ![r] = "done"]
            /\ raised' = [raised EXCEPT ![r] = o]
            /\ res' = [res EXCEPT ![r] = handleApiError(o)]
            /\ UNCHANGED delays
  /\ UNCHANGED <<MAX_RETRIES, endpoint>>

\* index.js:137-150
CreateSettles(r) ==
  /\ pc[r] = "call"
  /\ endpoint[r] = "create"
  /\ \E o \in Outcomes :
       Settle(r, o, createBotRoute(o, currentTry[r]), o)

\* index.js:165-206 and the route's try/catch, index.js:208-214
StatusSettles(r) ==
  /\ pc[r] = "call"
  /\ endpoint[r] = "status"
  /\ \E o \in Outcomes :
       Settle(r, o, getBotStatus(o, currentTry[r]), o)

\* index.js:228-268 and the route's try/catch, index.js:270-276
RecordingsSettles(r) ==
  /\ pc[r] = "call"
  /\ endpoint[r] = "recordings"
  /\ \E o \in Outcomes :
       Settle(r, o, getRecordings(o, currentTry[r]),
              [recordings |-> IF o.kind = "ok" THEN RecordingsOf(o) ELSE <<>>])

\* `await delay(RETRY_DELAY)` ends and the closure calls itself:
\* index.js:180-181, 201-202, 242-243, 263-264
DelayElapses(r) ==
  /\ pc[r] = "delay"
  /\ pc' = [pc EXCEPT ![r] = "call"]
  /\ UNCHANGED <<MAX_RETRIES, endpoint, currentTry, log, last, delays, raised, res>>

\* The server's steps leave the client and the provider's script alone.
Next ==
  /\ \E r \in Reqs :
       \/ CreateRequest(r)
       \/ StatusRequest(r)
       \/ RecordingsRequest(r)
       \/ CreateSettles(r)
       \/ StatusSettles(r)
       \/ RecordingsSettles(r)
       \/ DelayElapses(r)
  /\ UNCHANGED <<cvars, providerReads>>

Spec == Init /\ [][Next]_vars

\* Every provider call settles (RECALL_API has a timeout, index.js:67) and
\* every timer of delay() fires (index.js:126).
(***************************************************************************)
(* The relay serving NumPair requests at once.  The handlers are async     *)
(* functions of one Node process: they interleave at their awaits, and     *)
(* each request has its own closure.  The provider's answers are drawn     *)
(* from one representative of each class.                                  *)
(***************************************************************************)
PairOutcomes ==
  {[kind |-> "ok", status |-> "joining", hasRecordings |-> FALSE,
    recordings |-> <<>>],
   [kind |-> "ok", status |-> "joined", hasRecordings |-> TRUE,
    recordings |-> <<"r1">>],
   NotFoundErr, TimeoutErr}

\* index.js:165-206 and 228-268 with the routes' try/catch
PairSettles(r) ==
  /\ pc[r] = "call"
  /\ \E o \in PairOutcomes :
       IF endpoint[r] = "status"
         THEN Settle(r, o, getBotStatus(o, currentTry[r]), o)
         ELSE Settle(r, o, getRecordings(o, currentTry[r]),
                     [recordings |-> IF o.kind = "ok" THEN RecordingsOf(o)
                                     ELSE <<>>])

PairInit ==
  /\ ClientInit
  /\ variant = "App"
  /\ MAX_RETRIES = PairRetries
  /\ pc = [r \in PairReqs |-> "idle"]
  /\ endpoint = [r \in PairReqs |-> "status"]
  /\ currentTry = [r \in PairReqs |-> 0]
  /\ log = [r \in PairReqs |-> <<>>]
  /\ last = [r \in PairReqs |-> None]
  /\ delays = [r \in PairReqs |-> 0]
  /\ raised = [r \in PairReqs |-> None]
  /\ res = [r \in PairReqs |-> None]

PairNext ==
  /\ \E r \in PairReqs :
       \/ StatusRequest(r)
       \/ RecordingsRequest(r)
       \/ PairSettles(r)
       \/ DelayElapses(r)
  /\ UNCHANGED <<cvars, providerReads>>

PairSpec == PairInit /\ [][PairNext]_vars

Fairness ==
  \A r \in Reqs :
    /\ WF_vars(CreateSettles(r) /\ UNCHANGED <<cvars, providerReads>>)
    /\ WF_vars(StatusSettles(r) /\ UNCHANGED <<cvars, providerReads>>)
    /\ WF_vars(RecordingsSettles(r) /\ UNCHANGED <<cvars, providerReads>>)
    /\ WF_vars(DelayElapses(r) /\ UNCHANGED <<cvars, providerReads>>)

LiveSpec == Init /\ [][Next]_vars /\ Fairness

\* One request from arrival to response: the retry closure of a handler
\* shares nothing with other requests.
OneRequestNext ==
  /\ \/ CreateRequest(1)
     \/ StatusRequest(1)
     \/ RecordingsRequest(1)
     \/ CreateSettles(1)
     \/ StatusSettles(1)
     \/ RecordingsSettles(1)
     \/ DelayElapses(1)
  /\ UNCHANGED <<cvars, providerReads>>

OneRequestFairness ==
  /\ WF_vars(CreateSettles(1) /\ UNCHANGED <<cvars, providerReads>>)
  /\ WF_vars(StatusSettles(1) /\ UNCHANGED <<cvars, providerReads>>)
  /\ WF_vars(RecordingsSettles(1) /\ UNCHANGED <<cvars, providerReads>>)
  /\ WF_vars(DelayElapses(1) /\ UNCHANGED <<cvars, providerReads>>)

OneRequestLiveSpec == Init /\ [][OneRequestNext]_vars /\ OneRequestFairness

-----------------------------------------------------------------------------
(* The client.  "App" is src/src/App.tsx, "p2" is src/unnamed/part_002 and *)
(* "p4" is src/unnamed/part_004.                                          *)

\* Status strings the relay may report; "paused" stands for any string the
\* client does not know.
ClientStatuses == {"joining", "joined", "left", "ended", "paused"}

\* Answers of GET /api/bot/:id as the client sees them: response.data, or an
\* error with the relay's HTTP status (0: no response, e.g. a timeout).
StatusAnswers ==
  {[kind |-> "ok", status |-> st, hasRecordings |-> TRUE, recordings |-> l] :
      st \in ClientStatuses, l \in {<<>>, <<"r1">>}}
  \cup
  {[kind |-> "err", code |-> c] : c \in {404, 500, 0}}

\* Answers of GET /api/bot/:id/recordings.
RecordingsAnswers ==
  {[kind |-> "ok", hasRecordings |-> TRUE, recordings |-> l] :
      l \in {<<>>, <<"r1">>}}
  \cup
  {[kind |-> "err", code |-> c] : c \in {404, 500, 0}}

IsTerminal(st) == st \in {"ended", "left"}

\* The message the status switch of part_004 shows (part_004:67-83).
StatusText(st) ==
  CASE st = "joining" -> "msg_joining"
    [] st = "joined" -> "msg_joined"
    [] IsTerminal(st) -> "msg_ended"
    [] OTHER -> st

\* clearInterval at the top of startPolling (part_002:46-48, part_003:91,
\* part_004:58): cap is the handle startPolling sees.
StartClears(cap) ==
  IF variant # "App" /\ cap # 0 THEN {cap} ELSE {}

\* The cleanup of useEffect(..., [pollingInterval]) (part_002:14-20,
\* part_003:44-48, part_004:28-32): when the stored handle changes, the old one is cleared.
EffectCleanup(old, new) ==
  IF variant # "App" /\ old # 0 /\ new # old THEN {old} ELSE {}

Without(tm, cleared) == [t \in Sessions |-> tm[t] /\ t \notin cleared]

\* createBot up to `await ....post('/create-bot')` (App.tsx:12-19,
\* part_002:22-29, part_003:58-67, part_004:34-42).  The button is disabled while loading.
ClickCreate ==
  /\ ~loading
  /\ ~creating
  /\ nSessions < MaxSessions
  /\ loading' = TRUE
  /\ creating' = TRUE
  /\ uiStatus' = "msg_creating"
  /\ uiError' = (IF variant \in {"p3", "p4"} THEN "null" ELSE uiError)
  /\ capPoll' = pollingInterval
  /\ capRetry' = retryCount
  /\ UNCHANGED <<variant, botId, uiRecordings, retryCount, pollingInterval,
                 nSessions, timerOn, sessRetry, inflight, recTimers,
                 recInflight, recFetches, recScheduled, termStops,
                 fails, last404, sessPoll>>

\* startPolling without the initial checkBotStatus() call of part_003.
CreateSucceeds_NoImmediateCheck ==
  /\ creating
  /\ LET s == nSessions + 1
         handle == IF variant = "App" THEN 0 ELSE s
         seen == IF variant = "p3" THEN pollingInterval ELSE capPoll
         cleared == StartClears(seen) \cup EffectCleanup(pollingInterval, handle)
     IN /\ nSessions' = s
        /\ botId' = s
        /\ pollingInterval' = handle
        /\ timerOn' = [Without(timerOn, cleared) EXCEPT ![s] = TRUE]
        /\ sessRetry' = [sessRetry EXCEPT ![s] = capRetry]
        /\ sessPoll' = [sessPoll EXCEPT ![s] =
                          IF variant = "p3" THEN pollingInterval ELSE 0]
        /\ inflight' = [inflight EXCEPT ![s] = 0]
  /\ uiStatus' = "msg_created"
  /\ retryCount' = (IF variant = "p4" THEN 0 ELSE retryCount)
  /\ creating' = FALSE
  /\ loading' = FALSE
  /\ UNCHANGED <<variant, uiError, uiRecordings, capPoll, capRetry,
                 recTimers, recInflight, recFetches, recScheduled, termStops,
                 fails, last404>>

\* The POST succeeded: the rest of createBot's try block, with startPolling
\* (App.tsx:21-25 and 33-51, part_002:31-35 and 44-84, part_004:44-47 and
\* 57-109), and the finally block.  In part_003 (70-78, 51-56, 90-102)
\* startPolling is called by the effect on botId, in the render that follows:
\* it sees the handle stored at that time, calls checkBotStatus at once, and
\* the checkBotStatus of that render is the one the interval calls.
CreateSucceeds ==
  /\ creating
  /\ LET s == nSessions + 1
         handle == IF variant = "App" THEN 0 ELSE s
         seen == IF variant = "p3" THEN pollingInterval ELSE capPoll
         cleared == StartClears(seen) \cup EffectCleanup(pollingInterval, handle)
     IN /\ nSessions' = s
        /\ botId' = s
        /\ pollingInterval' = handle
        /\ timerOn' = [Without(timerOn, cleared) EXCEPT ![s] = TRUE]
        /\ sessRetry' = [sessRetry EXCEPT ![s] = capRetry]
        /\ sessPoll' = [sessPoll EXCEPT ![s] =
                          IF variant = "p3" THEN pollingInterval ELSE 0]
        /\ inflight' = [inflight EXCEPT ![s] = IF variant = "p3" THEN 1 ELSE 0]
  /\ uiStatus' = "msg_created"
  /\ retryCount' = (IF variant = "p4" THEN 0 ELSE retryCount)
  /\ creating' = FALSE
  /\ loading' = FALSE
  /\ UNCHANGED <<variant, uiError, uiRecordings, capPoll, capRetry,
                 recTimers, recInflight, recFetches, recScheduled, termStops,
                 fails, last404>>

\* The POST failed: createBot's catch and finally blocks (App.tsx:26-30,
\* part_002:36-41, part_004:48-54).
CreateFails ==
  /\ creating
  /\ creating' = FALSE
  /\ loading' = FALSE
  /\ uiStatus' = "msg_create_failed"
  /\ uiError' = (IF variant \in {"p3", "p4"} THEN "create_error" ELSE uiError)
  /\ UNCHANGED <<variant, botId, uiRecordings, retryCount, pollingInterval,
                 capPoll, capRetry, nSessions, timerOn, sessRetry, inflight,
                 recTimers, recInflight, recFetches, recScheduled, termStops,
                 fails, last404, sessPoll>>

\* The interval of session s fires and its callback runs up to the await of
\* the status fetch (App.tsx:34-36, part_002:50-52, part_004:60-62).
Tick(s) ==
  /\ timerOn[s]
  /\ inflight[s] < MaxInFlight
  /\ inflight' = [inflight EXCEPT ![s] = @ + 1]
  /\ UNCHANGED <<variant, loading, botId, uiStatus, uiError, uiRecordings,
                 retryCount, pollingInterval, creating, capPoll, capRetry,
                 nSessions, timerOn, sessRetry, recTimers, recInflight,
                 recFetches, recScheduled, termStops,
                 fails, last404, sessPoll>>

\* What the interval callback does once its status fetch is answered with a:
\* the state it sets, whether it calls clearInterval(interval) (stop),
\* setPollingInterval(null) (setNull) and setTimeout(getRecordings, 10000)
\* (sched).  rc is the current retryCount, seen by the functional update.

\* App.tsx:36-49
OnStatusAnswerApp(a) ==
  IF a.kind = "ok"
    THEN [status |-> a.status, error |-> uiError, recordings |-> uiRecordings,
          retry |-> retryCount, stop |-> IsTerminal(a.status),
          setNull |-> FALSE, sched |-> IsTerminal(a.status)]
    ELSE [status |-> "msg_poll_error", error |-> uiError,
          recordings |-> uiRecordings, retry |-> retryCount, stop |-> TRUE,
          setNull |-> FALSE, sched |-> FALSE]

\* part_002:52-80
OnStatusAnswerP2(a) ==
  IF a.kind = "ok"
    THEN [status |-> IF IsTerminal(a.status) THEN "msg_ended" ELSE a.status,
          error |-> uiError,
          recordings |-> IF Len(RecordingsOf(a)) > 0 THEN RecordingsOf(a)
                         ELSE uiRecordings,
          retry |-> retryCount, stop |-> IsTerminal(a.status),
          setNull |-> FALSE, sched |-> IsTerminal(a.status)]
    ELSE [status |-> IF a.code = 404 THEN "msg_not_found" ELSE "msg_poll_error",
          error |-> uiError, recordings |-> uiRecordings, retry |-> retryCount,
          stop |-> (a.code = 404), setNull |-> FALSE, sched |-> FALSE]

OnStatusAnswerP4_ClearsOnEmpty(a) ==
  IF a.kind = "ok"
    THEN [status |-> StatusText(a.status), error |-> "null",
          recordings |-> RecordingsOf(a),
          retry |-> 0, stop |-> IsTerminal(a.status),
          setNull |-> IsTerminal(a.status), sched |-> IsTerminal(a.status)]
    ELSE LET newCount == retryCount + 1
         IN IF newCount > 5
              THEN [status |-> uiStatus, error |-> "msg_too_many_errors",
                    recordings |-> uiRecordings, retry |-> newCount,
                    stop |-> TRUE, setNull |-> TRUE, sched |-> FALSE]
              ELSE [status |-> "msg_attempt", error |-> uiError,
                    recordings |-> uiRecordings, retry |-> newCount,
                    stop |-> FALSE, setNull |-> FALSE, sched |-> FALSE]

OnStatusAnswerP4_OnlyEnded(a) ==
  IF a.kind = "ok"
    THEN [status |-> StatusText(a.status), error |-> "null",
          recordings |-> IF Len(RecordingsOf(a)) > 0 THEN RecordingsOf(a)
                         ELSE uiRecordings,
          retry |-> 0, stop |-> (a.status = "ended"),
          setNull |-> (a.status = "ended"), sched |-> (a.status = "ended")]
    ELSE LET newCount == retryCount + 1
         IN IF newCount > 5
              THEN [status |-> uiStatus, error |-> "msg_too_many_errors",
                    recordings |-> uiRecordings, retry |-> newCount,
                    stop |-> TRUE, setNull |-> TRUE, sched |-> FALSE]
              ELSE [status |-> "msg_attempt", error |-> uiError,
                    recordings |-> uiRecordings, retry |-> newCount,
                    stop |-> FALSE, setNull |-> FALSE, sched |-> FALSE]

\* part_004:62-105
OnStatusAnswerP4(a) ==
  IF a.kind = "ok"
    THEN [status |-> StatusText(a.status), error |-> "null",
          recordings |-> IF Len(RecordingsOf(a)) > 0 THEN RecordingsOf(a)
                         ELSE uiRecordings,
          retry |-> 0, stop |-> IsTerminal(a.status),
          setNull |-> IsTerminal(a.status), sched |-> IsTerminal(a.status)]
    ELSE LET newCount == retryCount + 1
         IN IF newCount > 5
              THEN [status |-> uiStatus, error |-> "msg_too_many_errors",
                    recordings |-> uiRecordings, retry |-> newCount,
                    stop |-> TRUE, setNull |-> TRUE, sched |-> FALSE]
              ELSE [status |-> "msg_attempt", error |-> uiError,
                    recordings |-> uiRecordings, retry |-> newCount,
                    stop |-> FALSE, setNull |-> FALSE, sched |-> FALSE]

\* The message the status switch of part_003 shows (part_003:121-138).
StatusTextP3(st) ==
  CASE st = "joining" -> "msg_joining"
    [] st = "joined" -> "msg_joined"
    [] IsTerminal(st) -> "msg_meeting_ended"
    [] OTHER -> st

\* checkBotStatus of part_003 (107-143); cap is the pollingInterval of the
\* render it was created in, and stop clears that handle, not the interval
\* that called it.
OnStatusAnswerP3(a, cap) ==
  IF a.kind = "ok"
    THEN [status |-> StatusTextP3(a.status), error |-> "null",
          recordings |-> IF Len(RecordingsOf(a)) > 0 THEN RecordingsOf(a)
                         ELSE uiRecordings,
          retry |-> retryCount,
          stop |-> IsTerminal(a.status) /\ cap # 0,
          setNull |-> IsTerminal(a.status) /\ cap # 0, sched |-> FALSE]
    ELSE [status |-> uiStatus, error |-> "msg_status_failed",
          recordings |-> uiRecordings, retry |-> retryCount,
          stop |-> FALSE, setNull |-> FALSE, sched |-> FALSE]

OnStatusAnswer(a) ==
  CASE variant = "App" -> OnStatusAnswerApp(a)
    [] variant = "p2" -> OnStatusAnswerP2(a)
    [] variant = "p4" -> OnStatusAnswerP4(a)

\* A status fetch of session s is answered and the rest of the interval
\* callback runs (App.tsx:36-49, part_002:52-80, part_003:110-143,
\* part_004:62-105).
StatusAnsweredWith(s, a) ==
  /\ inflight[s] > 0
  /\ LET d == IF variant = "p3" THEN OnStatusAnswerP3(a, sessPoll[s])
                                ELSE OnStatusAnswer(a)
         handle == IF d.setNull THEN 0 ELSE pollingInterval
         cleared == (IF d.stop THEN {IF variant = "p3" THEN sessPoll[s] ELSE s}
                               ELSE {})
                      \cup EffectCleanup(pollingInterval, handle)
     IN /\ inflight' = [inflight EXCEPT ![s] = @ - 1]
        /\ uiStatus' = d.status
        /\ uiError' = d.error
        /\ uiRecordings' = d.recordings
        /\ retryCount' = d.retry
        /\ pollingInterval' = handle
        /\ timerOn' = Without(timerOn, cleared)
        /\ recTimers' = [recTimers EXCEPT ![s] = @ + (IF d.sched THEN 1 ELSE 0)]
        /\ recScheduled' =
             [recScheduled EXCEPT ![s] = @ + (IF d.sched THEN 1 ELSE 0)]
        /\ termStops' =
             [termStops EXCEPT ![s] = @ + (IF d.sched THEN 1 ELSE 0)]
  /\ fails' = [fails EXCEPT ![s] = IF a.kind = "ok" THEN 0
                                   ELSE IF @ < 6 THEN @ + 1 ELSE @]
  /\ last404' = [last404 EXCEPT ![s] = (a.kind = "err" /\ a.code = 404)]
  /\ UNCHANGED <<variant, loading, botId, creating, capPoll, capRetry,
                 nSessions, sessRetry, recInflight, recFetches, sessPoll>>

StatusAnswered(s) == \E a \in StatusAnswers : StatusAnsweredWith(s, a)

\* What getRecordings does once its fetch is answered with a: the state it
\* sets and whether it schedules itself again in 30 s (again).  cap is the
\* retryCount of the render the callback was created in.

\* App.tsx:56-61
OnRecordingsAnswerApp(a, cap) ==
  IF a.kind = "ok"
    THEN [status |-> "msg_rec_ready", error |-> uiError,
          recordings |-> RecordingsOf(a), retry |-> retryCount, again |-> FALSE]
    ELSE [status |-> "msg_rec_failed", error |-> uiError,
          recordings |-> uiRecordings, retry |-> retryCount, again |-> FALSE]

\* part_002:89-103
OnRecordingsAnswerP2(a, cap) ==
  IF a.kind = "ok"
    THEN IF Len(RecordingsOf(a)) > 0
           THEN [status |-> "msg_rec_ready", error |-> uiError,
                 recordings |-> RecordingsOf(a), retry |-> retryCount,
                 again |-> FALSE]
           ELSE [status |-> "msg_rec_none", error |-> uiError,
                 recordings |-> uiRecordings, retry |-> retryCount,
                 again |-> TRUE]
    ELSE [status |-> "msg_rec_failed", error |-> uiError,
          recordings |-> uiRecordings, retry |-> retryCount, again |-> FALSE]

\* part_004:114-134
OnRecordingsAnswerP4(a, cap) ==
  IF a.kind = "ok"
    THEN IF Len(RecordingsOf(a)) > 0
           THEN [status |-> "msg_rec_ready", error |-> "null",
                 recordings |-> RecordingsOf(a), retry |-> retryCount,
                 again |-> FALSE]
           ELSE IF cap < 5
                  THEN [status |-> "msg_rec_none", error |-> uiError,
                        recordings |-> uiRecordings, retry |-> retryCount + 1,
                        again |-> TRUE]
                  ELSE [status |-> "msg_rec_none", error |-> "msg_no_recordings",
                        recordings |-> uiRecordings, retry |-> retryCount,
                        again |-> FALSE]
    ELSE [status |-> "msg_rec_failed", error |-> "fetch_error",
          recordings |-> uiRecordings, retry |-> retryCount, again |-> FALSE]

OnRecordingsAnswer(a, cap) ==
  CASE variant = "App" -> OnRecordingsAnswerApp(a, cap)
    [] variant = "p2" -> OnRecordingsAnswerP2(a, cap)
    [] variant = "p4" -> OnRecordingsAnswerP4(a, cap)

\* A setTimeout(() => getRecordings(id)) of session s fires and getRecordings
\* runs up to the await of its fetch (App.tsx:53-56, part_002:86-89,
\* part_004:111-114).
RecordingsCheckUpTo(s, cap) ==
  /\ recTimers[s] > 0
  /\ recFetches[s] < cap
  /\ recTimers' = [recTimers EXCEPT ![s] = @ - 1]
  /\ recInflight' = [recInflight EXCEPT ![s] = @ + 1]
  /\ recFetches' = [recFetches EXCEPT ![s] = @ + 1]
  /\ uiStatus' = "msg_rec_checking"
  /\ UNCHANGED <<variant, loading, botId, uiError, uiRecordings, retryCount,
                 pollingInterval, creating, capPoll, capRetry, nSessions,
                 timerOn, sessRetry, inflight, recScheduled, termStops,
                 fails, last404, sessPoll>>

RecordingsCheck(s) == RecordingsCheckUpTo(s, MaxRecChecks)

\* The recordings fetch of session s is answered and the rest of
\* getRecordings runs (App.tsx:57-61, part_002:90-103, part_004:115-134).
RecordingsAnswered(s) ==
  /\ recInflight[s] > 0
  /\ \E a \in RecordingsAnswers :
       LET d == OnRecordingsAnswer(a, sessRetry[s])
       IN /\ recInflight' = [recInflight EXCEPT ![s] = @ - 1]
          /\ uiStatus' = d.status
          /\ uiError' = d.error
          /\ uiRecordings' = d.recordings
          /\ retryCount' = d.retry
          /\ recTimers' = [recTimers EXCEPT ![s] = @ + (IF d.again THEN 1 ELSE 0)]
  /\ UNCHANGED <<variant, loading, botId, pollingInterval, creating, capPoll,
                 capRetry, nSessions, timerOn, sessRetry, inflight, recFetches,
                 recScheduled, termStops,
                 fails, last404, sessPoll>>

ClientNext ==
  /\ \/ ClickCreate
     \/ CreateSucceeds
     \/ CreateFails
     \/ \E s \in Sessions : Tick(s)
     \/ \E s \in Sessions : StatusAnswered(s)
     \/ \E s \in Sessions : RecordingsCheck(s)
     \/ \E s \in Sessions : RecordingsAnswered(s)
  /\ UNCHANGED <<svars, providerReads>>

\* The client alone: the relay is left out and its answers are free.
ClientSpecInit ==
  /\ ClientInit
  /\ MAX_RETRIES = MaxRetriesBound
  /\ pc = [r \in Reqs |-> "idle"]
  /\ endpoint = [r \in Reqs |-> "status"]
  /\ currentTry = [r \in Reqs |-> 0]
  /\ log = [r \in Reqs |-> <<>>]
  /\ last = [r \in Reqs |-> None]
  /\ delays = [r \in Reqs |-> 0]
  /\ raised = [r \in Reqs |-> None]
  /\ res = [r \in Reqs |-> None]

ClientSpec == ClientSpecInit /\ [][ClientNext]_vars

\* The client when the user starts a single bot: the chain of recordings
\* checks is followed further.
OneSessionNext ==
  /\ \/ ClickCreate /\ nSessions = 0
     \/ CreateSucceeds
     \/ CreateFails
     \/ Tick(1)
     \/ StatusAnswered(1)
     \/ RecordingsCheckUpTo(1, MaxRecFetches)
     \/ RecordingsAnswered(1)
  /\ UNCHANGED <<svars, providerReads>>

OneSessionSpec == ClientSpecInit /\ [][OneSessionNext]_vars

\* An armed interval keeps firing, a due timeout fires, and every fetch is
\* answered in the end (axios rejects a request that gets no response).
OneSessionFairness ==
  /\ WF_vars(Tick(1) /\ UNCHANGED <<svars, providerReads>>)
  /\ WF_vars(StatusAnswered(1) /\ UNCHANGED <<svars, providerReads>>)
  /\ WF_vars(RecordingsCheckUpTo(1, MaxRecFetches)
               /\ UNCHANGED <<svars, providerReads>>)
  /\ WF_vars(RecordingsAnswered(1) /\ UNCHANGED <<svars, providerReads>>)

OneSessionLiveSpec == OneSessionSpec /\ OneSessionFairness

(***************************************************************************)
(* Client, relay and provider together, for one bot: the client's status   *)
(* fetches go through the relay's status route, and the provider's bot is   *)
(* 'joining' for its first JoiningReads status reads and 'joined' after.    *)
(***************************************************************************)

\* process.env.MAX_RETRIES || '10', index.js:15
DefaultMaxRetries == 10

\* Status reads the provider answers with 'joining' before 'joined'.
JoiningReads == 3

\* response.data of the provider's next status read.
ProviderAnswer ==
  [kind |-> "ok",
   status |-> IF providerReads < JoiningReads THEN "joining" ELSE "joined",
   hasRecordings |-> FALSE, recordings |-> <<>>]

\* What axios hands the client for the relay's response: the JSON body of
\* res.json(result), or an error carrying the response's status code.
AnswerOf(rs) ==
  IF rs.kind = "json" THEN rs.body ELSE [kind |-> "err", code |-> rs.status]

\* createBot's POST succeeded; the status check part_003 makes at once
\* (part_003:95) reaches the relay.
E2ECreateSucceeds ==
  /\ CreateSucceeds
  /\ IF variant = "p3"
       THEN \E r \in Reqs : pc[r] = "idle" /\ StatusRequest(r)
       ELSE UNCHANGED svars
  /\ UNCHANGED providerReads

\* A tick of the interval whose GET /api/bot/:id reaches the relay.
E2EFetch(r) ==
  /\ pc[r] = "idle"
  /\ Tick(1)
  /\ StatusRequest(r)
  /\ UNCHANGED providerReads

\* The relay's call of the provider settles with the bot's current status.
E2EProviderAnswers(r) ==
  /\ pc[r] = "call"
  /\ endpoint[r] = "status"
  /\ Settle(r, ProviderAnswer, getBotStatus(ProviderAnswer, currentTry[r]),
            ProviderAnswer)
  /\ providerReads' =
       (IF providerReads < JoiningReads THEN providerReads + 1 ELSE providerReads)
  /\ UNCHANGED cvars

E2EDelayElapses(r) == DelayElapses(r) /\ UNCHANGED <<cvars, providerReads>>

\* The relay's response reaches the interval callback that awaits it.
E2EAnswered(r) ==
  /\ pc[r] = "done"
  /\ StatusAnsweredWith(1, AnswerOf(res[r]))
  /\ pc' = [pc EXCEPT ![r] = "idle"]
  /\ res' = [res EXCEPT ![r] = None]
  /\ UNCHANGED <<MAX_RETRIES, endpoint, currentTry, log, last, delays, raised,
                 providerReads>>

E2ENext ==
  \/ ClickCreate /\ nSessions = 0 /\ UNCHANGED <<svars, providerReads>>
  \/ E2ECreateSucceeds
  \/ \E r \in Reqs : E2EFetch(r)
  \/ \E r \in Reqs : E2EProviderAnswers(r)
  \/ \E r \in Reqs : E2EDelayElapses(r)
  \/ \E r \in Reqs : E2EAnswered(r)

\* The relay runs with any small retry budget or with the default one.
E2EInit ==
  /\ ClientInit
  /\ MAX_RETRIES \in (0..MaxRetriesBound) \cup {DefaultMaxRetries}
  /\ pc = [r \in Reqs |-> "idle"]
  /\ endpoint = [r \in Reqs |-> "status"]
  /\ currentTry = [r \in Reqs |-> 0]
  /\ log = [r \in Reqs |-> <<>>]
  /\ last = [r \in Reqs |-> None]
  /\ delays = [r \in Reqs |-> 0]
  /\ raised = [r \in Reqs |-> None]
  /\ res = [r \in Reqs |-> None]

E2ESpec == E2EInit /\ [][E2ENext]_vars

-----------------------------------------------------------------------------
\* Number of provider calls request r has issued so far.
Calls(r) == Len(log[r]) + (IF pc[r] = "call" THEN 1 ELSE 0)

TypeOK ==
  /\ MAX_RETRIES \in 0..MaxRetriesBound
  /\ \A r \in Reqs :
       /\ pc[r] \in {"idle", "call", "delay", "done"}
       /\ endpoint[r] \in {"create", "status", "recordings"}
       /\ currentTry[r] \in 0..(MaxRetriesBound + 1)
       /\ delays[r] \in 0..(MaxRetriesBound + 1)

-----------------------------------------------------------------------------
(* Vocabulary of the properties. *)

AllOf(s, c) == \A i \in 1..Len(s) : s[i] = c
Front(s) == SubSeq(s, 1, Len(s) - 1)
LastOf(s) == s[Len(s)]
Count(s, c) == Cardinality({i \in 1..Len(s) : s[i] = c})

\* Request r is on one of the two polling routes.
Polling(r) == endpoint[r] \in {"status", "recordings"}

\* The success response the route handler sends for the latest outcome.
JsonOfLast(r) ==
  [kind |-> "json", status |-> 200,
   body |-> IF endpoint[r] = "recordings"
              THEN [recordings |-> RecordingsOf(last[r])]
              ELSE last[r]]

Succeeded(r) ==
  /\ pc[r] = "done"
  /\ last[r].kind = "ok"
  /\ raised[r] = None
  /\ res[r] = JsonOfLast(r)

Failed(r) ==
  /\ pc[r] = "done"
  /\ last[r].kind = "err"
  /\ raised[r] = last[r]
  /\ res[r] = handleApiError(last[r])

\* C1: with MAX_RETRIES = N >= 1, a status or recordings request whose every
\* provider call fails with a non-404 error makes exactly N provider calls:
\* it is still running while fewer than N have failed, and when the N-th
\* fails it raises the error of that last call.
C1_TransientExhaustion ==
  \A r \in Reqs :
    (MAX_RETRIES >= 1 /\ Polling(r) /\ log[r] # <<>>
       /\ AllOf(log[r], "transient")) =>
      /\ Calls(r) <= MAX_RETRIES
      /\ Len(log[r]) < MAX_RETRIES => pc[r] \in {"delay", "call"}
      /\ Len(log[r]) = MAX_RETRIES => Failed(r) /\ last[r].kind = "err"

C1_Witness ==
  \E r \in Reqs :
    /\ MAX_RETRIES = 2
    /\ endpoint[r] = "recordings"
    /\ pc[r] = "done"
    /\ log[r] = <<"transient", "transient">>
    /\ delays[r] = 1
    /\ raised[r] = TimeoutErr

\* C2: in getBotStatus a provider 404 is terminal wherever it occurs: it is
\* the last provider call of the request (the only one when it comes
\* first), no delay follows it, and the 404 error itself is raised to the
\* route handler.
C2_StatusNotFoundTerminal ==
  \A r \in Reqs :
    (endpoint[r] = "status" /\ Count(log[r], "notfound") > 0) =>
      /\ LastOf(log[r]) = "notfound"
      /\ Count(log[r], "notfound") = 1
      /\ pc[r] = "done"
      /\ Calls(r) = Len(log[r])
      /\ delays[r] = Len(log[r]) - 1
      /\ IsNotFound(raised[r])
      /\ Failed(r)

C2_Witness ==
  \E r \in Reqs :
    /\ endpoint[r] = "status"
    /\ pc[r] = "done"
    /\ log[r] = <<"notready", "notready", "notfound">>
    /\ delays[r] = 2
    /\ IsNotFound(raised[r])

\* C3: when the first k-1 provider calls of a request fail transiently and
\* the k-th returns a ready result, then k <= MAX_RETRIES, the request
\* answers with that k-th result and exactly k provider calls were made;
\* and fewer than MAX_RETRIES transient failures never end the request.
C3_SuccessOnAttemptK ==
  \A r \in Reqs :
    /\ (Polling(r) /\ log[r] # <<>> /\ AllOf(Front(log[r]), "transient")
          /\ LastOf(log[r]) = "ready") =>
         /\ Len(log[r]) <= MAX_RETRIES \/ Len(log[r]) = 1
         /\ Succeeded(r)
         /\ Calls(r) = Len(log[r])
         /\ delays[r] = Len(log[r]) - 1
    /\ (Polling(r) /\ AllOf(log[r], "transient")
          /\ Len(log[r]) < MAX_RETRIES /\ pc[r] # "idle") =>
         pc[r] \in {"delay", "call"}

C3_Witness ==
  \E r \in Reqs :
    /\ MAX_RETRIES = 2
    /\ endpoint[r] = "status"
    /\ pc[r] = "done"
    /\ log[r] = <<"transient", "ready">>
    /\ res[r].kind = "json"
    /\ res[r].body.status = "ended"

\* C4: in getBotStatus, when the provider answers "joining" on j successive
\* polls and then a non-"joining" status, exactly j delays separate the
\* j + 1 polls, the non-"joining" payload is the response and no error is
\* raised; every j up to MAX_RETRIES is granted its re-poll.
C4_JoiningThenReady ==
  \A r \in Reqs :
    endpoint[r] = "status" =>
      /\ (log[r] # <<>> /\ AllOf(Front(log[r]), "notready")
            /\ LastOf(log[r]) = "ready") =>
           /\ Len(log[r]) - 1 <= MAX_RETRIES
           /\ delays[r] = Len(log[r]) - 1
           /\ pc[r] = "done"
           /\ raised[r] = None
           /\ res[r] = [kind |-> "json", status |-> 200, body |-> last[r]]
           /\ last[r].status # "joining"
      /\ (log[r] # <<>> /\ AllOf(log[r], "notready")
            /\ Len(log[r]) <= MAX_RETRIES) =>
           /\ pc[r] \in {"delay", "call"}
           /\ delays[r] = Len(log[r])

C4_Witness ==
  \E r \in Reqs :
    /\ endpoint[r] = "status"
    /\ pc[r] = "done"
    /\ log[r] = <<"notready", "notready", "ready">>
    /\ delays[r] = 2
    /\ res[r].kind = "json"
    /\ res[r].body.status = "joined"

\* C5: in getRecordings, when the bot payload has an empty or missing
\* recordings list on j successive polls and then a non-empty list L, the
\* response carries exactly L after exactly j delays and no error is
\* raised; every j up to MAX_RETRIES is granted its re-poll.
C5_EmptyThenRecordings ==
  \A r \in Reqs :
    endpoint[r] = "recordings" =>
      /\ (log[r] # <<>> /\ AllOf(Front(log[r]), "notready")
            /\ LastOf(log[r]) = "ready") =>
           /\ Len(log[r]) - 1 <= MAX_RETRIES
           /\ delays[r] = Len(log[r]) - 1
           /\ pc[r] = "done"
           /\ raised[r] = None
           /\ res[r] = [kind |-> "json", status |-> 200,
                        body |-> [recordings |-> last[r].recordings]]
           /\ last[r].recordings # <<>>
      /\ (log[r] # <<>> /\ AllOf(log[r], "notready")
            /\ Len(log[r]) <= MAX_RETRIES) =>
           /\ pc[r] \in {"delay", "call"}
           /\ delays[r] = Len(log[r])
           /\ res[r] = None

C5_Witness ==
  \E r \in Reqs :
    /\ endpoint[r] = "recordings"
    /\ pc[r] = "done"
    /\ log[r] = <<"notready", "notready", "ready">>
    /\ delays[r] = 2
    /\ res[r].kind = "json"
    /\ res[r].body.recordings = <<"r1">>

\* C6: one status or recordings request makes at most MAX_RETRIES provider
\* calls (for MAX_RETRIES >= 1), and once it has ended the caller has seen
\* either a success or the error of the last provider call.
C6_AtMostNCalls ==
  \A r \in Reqs :
    /\ (MAX_RETRIES >= 1 /\ Polling(r)) => Calls(r) <= MAX_RETRIES
    /\ pc[r] = "done" => (Succeeded(r) \/ Failed(r))

\* C7: in getBotStatus, when every poll answers "joining" the request ends,
\* once the budget is used up (MAX_RETRIES re-polls), with the last
\* "joining" payload as a successful response and no error.
C7_JoiningExhaustionIsSuccess ==
  \A r \in Reqs :
    (endpoint[r] = "status" /\ log[r] # <<>> /\ AllOf(log[r], "notready")) =>
      /\ Len(log[r]) <= MAX_RETRIES + 1
      /\ raised[r] = None
      /\ res[r].kind # "error"
      /\ Len(log[r]) = MAX_RETRIES + 1 =>
           /\ pc[r] = "done"
           /\ delays[r] = MAX_RETRIES
           /\ res[r] = [kind |-> "json", status |-> 200, body |-> last[r]]
           /\ last[r].status = "joining"

C7_Witness ==
  \E r \in Reqs :
    /\ MAX_RETRIES = 2
    /\ endpoint[r] = "status"
    /\ pc[r] = "done"
    /\ log[r] = <<"notready", "notready", "notready">>
    /\ res[r].kind = "json"
    /\ res[r].body.status = "joining"

\* C8: in getRecordings, when every poll succeeds with an empty recordings
\* list the request ends, once the budget is used up, with the successful
\* response {recordings: []}; an empty list never becomes an error response.
C8_EmptyExhaustionIsSuccess ==
  \A r \in Reqs :
    (endpoint[r] = "recordings" /\ log[r] # <<>> /\ AllOf(log[r], "notready")) =>
      /\ Len(log[r]) <= MAX_RETRIES + 1
      /\ raised[r] = None
      /\ res[r].kind # "error"
      /\ Len(log[r]) = MAX_RETRIES + 1 =>
           /\ pc[r] = "done"
           /\ delays[r] = MAX_RETRIES
           /\ res[r] = [kind |-> "json", status |-> 200,
                        body |-> [recordings |-> <<>>]]

C8_Witness ==
  \E r \in Reqs :
    /\ MAX_RETRIES = 2
    /\ endpoint[r] = "recordings"
    /\ pc[r] = "done"
    /\ log[r] = <<"notready", "notready", "notready">>
    /\ res[r] = [kind |-> "json", status |-> 200, body |-> [recordings |-> <<>>]]

\* The log is j "joining" answers followed by m transient failures.
JoiningThenTransient(s, j) ==
  /\ j \in 0..Len(s)
  /\ \A i \in 1..Len(s) : s[i] = (IF i <= j THEN "notready" ELSE "transient")

\* C9: in getBotStatus "still joining" re-polls do not use up the attempts
\* granted to failed requests: when j "joining" answers are followed by
\* transient failures only and the request ends with the error, the failing
\* provider was attempted MAX_RETRIES times (for MAX_RETRIES >= 1).
C9_SeparateCounters ==
  \A r \in Reqs :
    (/\ MAX_RETRIES >= 1
     /\ endpoint[r] = "status"
     /\ pc[r] = "done"
     /\ raised[r] # None
     /\ \E j \in 0..Len(log[r]) : JoiningThenTransient(log[r], j)) =>
      Count(log[r], "transient") = MAX_RETRIES

\* C10: in getRecordings a provider 404 is never retried: it is the last
\* provider call of the request, no delay follows it and the error is
\* surfaced at once.
C10_RecordingsNotFoundTerminal ==
  \A r \in Reqs :
    (endpoint[r] = "recordings" /\ Count(log[r], "notfound") > 0) =>
      /\ Len(log[r]) = 1
      /\ pc[r] = "done"
      /\ delays[r] = 0
      /\ IsNotFound(raised[r])

\* C11: on all three routes the response to a terminal error carries the
\* provider's status code whenever the error has a provider response,
\* whatever its body, and 500 only when there is no provider response.
C11_StatusCodePropagates ==
  \A r \in Reqs :
    (pc[r] = "done" /\ raised[r] # None) =>
      /\ res[r].kind = "error"
      /\ res[r].status = (IF raised[r].code # 0 THEN raised[r].code ELSE 500)

\* C12: every request on the three routes is answered, and answered once:
\* a request that is waiting for the provider or for a delay leads to a
\* response (the success payload or an {error} body with a status code),
\* a finished request has a response, and a response is written only by
\* the step that finishes the request.
C12_AlwaysOneResponse ==
  /\ \A r \in Reqs :
       (pc[r] \in {"call", "delay"}) ~>
         (pc[r] = "done" /\ res[r].kind \in {"json", "error"})
  /\ [](\A r \in Reqs : pc[r] \in {"idle", "call", "delay", "done"})
  /\ [](\A r \in Reqs : (pc[r] = "done") <=> (res[r] # None))
  /\ [][\A r \in Reqs :
          res'[r] # res[r] =>
            \/ pc[r] = "call" /\ pc'[r] = "done" /\ res[r] = None
            \/ pc[r] = "done" /\ pc'[r] = "call" /\ res'[r] = None]_vars

C12_Witness ==
  \E r \in Reqs :
    /\ endpoint[r] = "recordings"
    /\ pc[r] = "done"
    /\ delays[r] = 2
    /\ res[r] = [kind |-> "error", status |-> 503, error |-> "Service unavailable"]

\* A status answer of session s is handled in this step.
AnswerHandled(s) == inflight'[s] < inflight[s]

\* C13: whatever createBot calls succeeded, at most one polling interval is
\* armed: a start while a session is polling cancels that session's timer.
C13_AtMostOneTimer ==
  Cardinality({s \in Sessions : timerOn[s]}) <= 1

\* C14: a session that observes 'ended' or 'left' stops its interval once
\* and schedules one 10 s recordings check, however many of its status
\* fetches were in flight and answered with a terminal status.
C14_StopOnceScheduleOnce ==
  \A s \in Sessions : termStops[s] <= 1 /\ recScheduled[s] <= 1

\* C15: in the client with retryCount, a successful status answer resets the
\* counter to zero, and a polling session is stopped with the persistent
\* error exactly when its consecutive failed status answers exceed 5.
C15_StopsAfterSixFailures ==
  [][variant = "p4" =>
       \A s \in Sessions :
         AnswerHandled(s) =>
           /\ (fails'[s] = 0 => retryCount' = 0)
           /\ timerOn[s] =>
                ((~timerOn'[s] /\ pollingInterval' = 0
                    /\ uiError' = "msg_too_many_errors")
                 <=> fails'[s] > 5)]_vars

\* C16: the chain of recordings checks that follows a terminal status is
\* bounded: the first check and at most 5 re-checks on an empty list.
C16_RecordingsChecksBounded ==
  \A s \in Sessions : recFetches[s] <= 6

\* C17: in the clients that keep polling after an error, a status answer
\* with HTTP 404 stops the session in the handling of that answer (its
\* interval is cleared) and the not-found text is shown.
C17_NotFoundStopsPolling ==
  [][(variant \in {"p2", "p4"}) =>
       \A s \in Sessions :
         (AnswerHandled(s) /\ last404'[s]) =>
           (~timerOn'[s] /\ uiStatus' = "msg_not_found")]_vars

\* C18: with the provider reporting 'joining' on three status reads and
\* 'joined' after, the client's status text becomes the 'joined' text from
\* the 'joining' text, and the error state is never set.
C18_JoiningThenJoined ==
  /\ [](variant \in {"p3", "p4"} => uiError = "null")
  /\ [][(variant \in {"p3", "p4"} /\ uiStatus' = "msg_joined"
            /\ uiStatus # "msg_joined")
          => uiStatus = "msg_joining"]_vars

\* C19: a polling session never has two status fetches in flight.
C19_OneFetchInFlight ==
  \A s \in Sessions : inflight[s] <= 1

\* C20: in the client with retryCount, a status answer handled after its
\* session's interval was cleared changes none of status, error, recordings
\* and retryCount.
C20_NoLateUpdates ==
  [][variant = "p4" =>
       \A s \in Sessions :
         (AnswerHandled(s) /\ ~timerOn[s]) =>
           UNCHANGED <<uiStatus, uiError, uiRecordings, retryCount>>]_vars

\* C29: POST /api/create-bot calls the provider once per request whatever
\* the outcome, never delays or retries, and answers a success with the
\* provider's payload as received, a failure with the mapped error.
C29_CreateCallsOnce ==
  \A r \in Reqs :
    endpoint[r] = "create" =>
      /\ Len(log[r]) <= 1
      /\ delays[r] = 0
      /\ pc[r] # "delay"
      /\ pc[r] = "done" =>
           /\ Len(log[r]) = 1
           /\ IF last[r].kind = "ok"
                THEN res[r] = [kind |-> "json", status |-> 200, body |-> last[r]]
                ELSE res[r] = handleApiError(last[r])

C29_Witness ==
  \E r \in Reqs :
    /\ endpoint[r] = "create"
    /\ pc[r] = "done"
    /\ MAX_RETRIES >= 2
    /\ last[r] = TimeoutErr
    /\ Len(log[r]) = 1
    /\ res[r].kind = "error"

\* C30: a status or recordings request makes at most MAX_RETRIES + 1
\* provider calls and at most MAX_RETRIES delays, its counter stays within
\* 0..MAX_RETRIES + 1, and the request ends.
C30_BoundedRetry ==
  /\ [](\A r \in Reqs :
          Polling(r) =>
            /\ Len(log[r]) <= MAX_RETRIES + 1
            /\ delays[r] <= MAX_RETRIES
            /\ currentTry[r] \in 0..(MAX_RETRIES + 1))
  /\ \A r \in Reqs :
       (Polling(r) /\ pc[r] \in {"call", "delay"}) ~> (pc[r] = "done")

C30_Witness ==
  \E r \in Reqs :
    /\ Polling(r)
    /\ pc[r] = "done"
    /\ MAX_RETRIES >= 1
    /\ Len(log[r]) = MAX_RETRIES + 1
    /\ delays[r] = MAX_RETRIES
    /\ currentTry[r] = MAX_RETRIES + 1
    /\ raised[r] # None

\* C28: the retry counter belongs to one request.  With requests
\* interleaving, a request starts with counter 0, a step of one request
\* leaves every other request's counter and history alone, and a request's
\* counter is the number of its own delays, plus one when its own failure
\* exhausted the budget.
C28_PrivateCounter ==
  /\ [](\A r \in PairReqs :
          currentTry[r] =
            delays[r] + (IF raised[r] # None
                            /\ ~(endpoint[r] = "status" /\ IsNotFound(raised[r]))
                         THEN 1 ELSE 0))
  /\ [][\A r \in PairReqs :
          IF pc'[r] = pc[r]
            THEN /\ currentTry'[r] = currentTry[r]
                 /\ log'[r] = log[r]
                 /\ delays'[r] = delays[r]
                 /\ res'[r] = res[r]
            ELSE pc[r] \in {"idle", "done"} => currentTry'[r] = 0]_vars

C28_Witness ==
  \E r, q \in PairReqs :
    /\ r # q
    /\ pc[r] = "delay"
    /\ currentTry[r] = MAX_RETRIES
    /\ MAX_RETRIES >= 1
    /\ pc[q] = "call"
    /\ Len(log[q]) = 1
    /\ currentTry[q] = 1

\* A callback of session s runs in this step: a status answer, a due
\* recordings check, or a recordings answer.
CallbackRuns(s) ==
  \/ inflight'[s] < inflight[s]
  \/ recTimers'[s] < recTimers[s]
  \/ recInflight'[s] < recInflight[s]

\* C21: in the clients that store the handle, pollingInterval is non-null
\* exactly when an interval is running, and it is that interval's handle.
C21_HandleIffRunning ==
  variant \in {"p2", "p3", "p4"} =>
    /\ (pollingInterval # 0) <=> (\E s \in Sessions : timerOn[s])
    /\ \A s \in Sessions : timerOn[s] => pollingInterval = s

\* C22: in the client where startPolling drives checkBotStatus, once the
\* 'Meeting has ended' status was shown for a left/ended bot, the interval
\* armed by startPolling is cancelled.
C22_EndedStopsTimer ==
  \A s \in Sessions :
    (variant = "p3" /\ uiStatus = "msg_meeting_ended" /\ timerOn[s])
      ~> ~timerOn[s]

\* C23: once a newer bot was created, no callback of an earlier bot (status
\* answer, recordings check, recordings answer) changes the status or the
\* recordings shown.
C23_OneOwner ==
  [][(variant \in {"App", "p4"}) =>
       \A s \in Sessions :
         (s < nSessions /\ CallbackRuns(s)) =>
           UNCHANGED <<uiStatus, uiRecordings>>]_vars

\* C24: while a session polls and fewer than 6 of its status answers in a
\* row have failed, the error state is null.
C24_ErrorOnlyOnExhaustion ==
  variant \in {"p3", "p4"} =>
    \A s \in Sessions : (timerOn[s] /\ fails[s] < 6) => uiError = "null"

\* C25: a successful status answer stops the session's interval exactly when
\* the status is 'left' or 'ended' (any other string, recognised or not,
\* leaves it running), and 'left' and 'ended' are handled alike: same stop,
\* same handle update, same scheduled recordings check, same counter, error
\* and recordings (App.tsx shows the provider's string itself in the text).
C25_StopIffLeftOrEnded ==
  /\ [](variant \in {"App", "p4"} =>
          \A a \in StatusAnswers :
            a.kind = "ok" =>
              LET d == OnStatusAnswer(a)
                  l == OnStatusAnswer([a EXCEPT !.status = "left"])
                  e == OnStatusAnswer([a EXCEPT !.status = "ended"])
              IN /\ d.stop <=> a.status \in {"left", "ended"}
                 /\ l.stop = e.stop /\ l.setNull = e.setNull
                 /\ l.sched = e.sched /\ l.retry = e.retry
                 /\ l.error = e.error /\ l.recordings = e.recordings
                 /\ variant = "p4" => l.status = e.status)
  /\ [][(variant \in {"App", "p4"}) =>
          \A s \in Sessions : \A a \in StatusAnswers :
            (a.kind = "ok" /\ timerOn[s] /\ StatusAnsweredWith(s, a)) =>
              (timerOn'[s] <=> a.status \notin {"left", "ended"})]_vars

C25_Witness ==
  /\ variant = "p4"
  /\ uiStatus = "msg_ended"
  /\ ~timerOn[1]
  /\ termStops[1] = 1
  /\ fails[1] = 0
  /\ pollingInterval = 0
  /\ recTimers[1] = 1

\* What a successful status answer a does to the recordings shown, in the
\* clients whose status tick reads the payload's list.
RecordingsAfter(a, cap) ==
  IF variant = "p3" THEN OnStatusAnswerP3(a, cap).recordings
                    ELSE OnStatusAnswer(a).recordings

\* C26: a successful status answer carrying a non-empty recordings list L
\* makes the client's list exactly L, whatever the list was; one carrying an
\* empty list or none leaves the client's list unchanged.
C26_ReplaceIfNonEmpty ==
  /\ [](variant \in {"p3", "p4"} =>
          \A a \in StatusAnswers : \A cap \in 0..MaxSessions :
            a.kind = "ok" =>
              /\ \A L \in {<<"r1">>, <<"r2">>, <<"r1", "r2">>, <<"r2", "r1">>} :
                   RecordingsAfter([a EXCEPT !.recordings = L], cap) = L
              /\ RecordingsAfter([a EXCEPT !.recordings = <<>>], cap)
                   = uiRecordings
              /\ RecordingsAfter([a EXCEPT !.hasRecordings = FALSE], cap)
                   = uiRecordings)
  /\ [][(variant \in {"p3", "p4"}) =>
          \A s \in Sessions : \A a \in StatusAnswers :
            (a.kind = "ok" /\ StatusAnsweredWith(s, a)) =>
              uiRecordings' = IF Len(a.recordings) > 0 THEN a.recordings
                                                      ELSE uiRecordings]_vars

\* A list taken from a status answer is shown while the session polls.
C26_Witness ==
  /\ variant = "p4"
  /\ uiRecordings = <<"r1">>
  /\ uiStatus = "msg_joining"
  /\ timerOn[1]
  /\ inflight[1] = 0
  /\ recScheduled[1] = 0

\* C27: in the client whose effect on botId starts polling, the step in which
\* the id of a created bot becomes known issues exactly one status fetch, for
\* that bot, with no tick of its interval yet, and leaves its interval armed.
C27_ImmediateCheck ==
  [][(variant = "p3" /\ nSessions' # nSessions) =>
       /\ nSessions' = nSessions + 1
       /\ botId' = nSessions'
       /\ inflight[nSessions'] = 0
       /\ inflight'[nSessions'] = 1
       /\ ~timerOn[nSessions']
       /\ timerOn'[nSessions']
       /\ \A s \in Sessions \ {nSessions'} : inflight'[s] = inflight[s]]_vars

C27_Witness ==
  /\ variant = "p3"
  /\ nSessions = 1
  /\ botId = 1
  /\ uiStatus = "msg_created"
  /\ inflight[1] = 1
  /\ timerOn[1]
  /\ fails[1] = 0

\* The provider answered o with a result the route of endpoint ep treats as
\* not ready: status 'joining', or no recordings.
NotReadyFor(ep, o) ==
  /\ o.kind = "ok"
  /\ \/ ep = "status" /\ o.status = "joining"
     \/ ep = "recordings" /\ Len(RecordingsOf(o)) = 0

\* C31: a status request answered with 'joining', or a recordings request
\* answered with an empty list, has currentTry >= MAX_RETRIES when it
\* returns; a not-ready result that arrives while currentTry < MAX_RETRIES
\* sends no response, counts one try and starts a delay, and the delay ends
\* in another provider call.
C31_NotReadyOnlyOnExhaustion ==
  /\ [](\A r \in Reqs :
          (Polling(r) /\ pc[r] = "done" /\ res[r] # None
             /\ res[r].kind = "json" /\ NotReadyFor(endpoint[r], last[r]))
            => currentTry[r] >= MAX_RETRIES)
  /\ [][\A r \in Reqs :
          /\ (Polling(r) /\ pc[r] = "call" /\ pc'[r] # "call"
                 /\ NotReadyFor(endpoint[r], last'[r])
                 /\ currentTry[r] < MAX_RETRIES)
               => /\ pc'[r] = "delay"
                  /\ currentTry'[r] = currentTry[r] + 1
                  /\ delays'[r] = delays[r] + 1
                  /\ res'[r] = res[r]
          /\ (Polling(r) /\ pc[r] = "delay" /\ pc'[r] # "delay")
               => /\ pc'[r] = "call"
                  /\ currentTry'[r] = currentTry[r]]_vars

\* A 'joining' answer is returned after a failure and a 'joining' result used
\* up a budget of two.
C31_Witness ==
  \E r \in Reqs :
    /\ endpoint[r] = "status"
    /\ pc[r] = "done"
    /\ MAX_RETRIES = 2
    /\ res[r] # None
    /\ res[r].kind = "json"
    /\ NotReadyFor("status", last[r])
    /\ currentTry[r] = 2
    /\ log[r] = <<"transient", "notready", "notready">>

====
